---- MODULE Spec2Model ----
\* Model of the browser terminal session (XtermTerminal inside TerminalDisplay):
\* one component instance, its two effects (terminal initialisation and the
\* WebSocket connect effect), the sockets and timers they create, and the
\* viewport tracker state.
EXTENDS Integers, Sequences, FiniteSets, TLC

\* ---------------------------------------------------------------- bounds
MaxSockets == 3
MaxEffects == 2
MaxBase == 3
MaxLines == 2
MaxSent == 2
MaxSendSockets == 2
MaxTabSockets == 3
MaxTabLines == 1
MaxFrames == 3
MaxPathLen == 3
MaxBytes == 3

\* ------------------------------------------------------- program constants
threshold == 2
NormalClosure == 1000

\* close codes a close event can carry: normal closure, abnormal closure
\* (network failure / failed connect), and "no status" for close() without code
CloseCodes == {1000, 1005, 1006}
RemoteCloseCodes == {1000, 1006}

CONNECTING == "CONNECTING"
OPEN == "OPEN"
CLOSING == "CLOSING"
CLOSED == "CLOSED"

\* ------------------------------------------------------------- endpoints
\* A wsUrl prop value: text is "empty" (falsy string), "garbage" (new URL
\* throws) or "url"; pathname and search are sequences of pieces of the URL
\* text ("/", a path segment, "?", a key, "=", a value, "&"); pathname
\* always starts with "/" for a parsed URL, search is empty or starts with "?".
UrlEmpty == [text |-> "empty", protocol |-> "", host |-> "", pathname |-> <<>>, search |-> <<>>]
UrlGarbage == [text |-> "garbage", protocol |-> "", host |-> "", pathname |-> <<>>, search |-> <<>>]
UrlNoToken == [text |-> "url", protocol |-> "https:", host |-> "host", pathname |-> <<"/">>, search |-> <<>>]
UrlA == [text |-> "url", protocol |-> "https:", host |-> "host", pathname |-> <<"/", "path", "/">>,
         search |-> <<"?", "arg", "=", "TOK">>]
UrlB == [text |-> "url", protocol |-> "http:", host |-> "host", pathname |-> <<"/">>,
         search |-> <<"?", "arg", "=", "TOK2">>]
Urls == {UrlEmpty, UrlGarbage, UrlNoToken, UrlA, UrlB}

Null == [wsFullUrl |-> <<>>, token |-> ""]

\* new URL(t) for a URL text t given as its sequence of pieces: the scheme
\* with its colon, "//", the host, the path and the query. A text without
\* scheme and "//" throws; an empty path is "/"; a query of "?" alone gives
\* an empty search.
URL(t) ==
  IF Len(t) < 3 \/ t[1] \notin {"https:", "http:", "wss:", "ws:"} \/ t[2] # "//"
  THEN UrlGarbage
  ELSE LET marks == {i \in 4..Len(t) : t[i] = "?"}
           q == IF marks = {} THEN Len(t) + 1
                ELSE CHOOSE i \in marks : \A j \in marks : i <= j
           path == SubSeq(t, 4, q - 1)
           query == SubSeq(t, q, Len(t))
       IN [text |-> "url", protocol |-> t[1], host |-> t[3],
           pathname |-> IF path = <<>> THEN <<"/">> ELSE path,
           search |-> IF Len(query) > 1 THEN query ELSE <<>>]

\* url.searchParams.get(key) || '': the value of the first parameter named
\* key, or "" when there is none or its value is empty
SearchGet(search, key) ==
  LET hits == {i \in 2..Len(search) : search[i] = key /\ search[i - 1] \in {"?", "&"}}
  IN IF hits = {} THEN ""
     ELSE LET i == CHOOSE h \in hits : \A j \in hits : h <= j
          IN IF i + 2 <= Len(search) /\ search[i + 1] = "=" /\ search[i + 2] # "&"
             THEN search[i + 2] ELSE ""

\* url.pathname.replace(/\/$/, '')
StripTrailingSlash(p) ==
  IF Len(p) > 0 /\ p[Len(p)] = "/" THEN SubSeq(p, 1, Len(p) - 1) ELSE p

\* parseUrl that builds the wire URL without the query string
parseUrlNoQuery(u) ==
  IF u.text # "url" THEN Null
  ELSE IF SearchGet(u.search, "arg") = "" THEN Null
  ELSE [wsFullUrl |-> << (IF u.protocol = "https:" THEN "wss:" ELSE "ws:"), "//", u.host >>
                        \o StripTrailingSlash(u.pathname) \o <<"/ws">>,
        token |-> SearchGet(u.search, "arg")]

\* parseUrl: Null on an unparsable URL or a missing token, else the derived
\* wire URL (protocol, "//", host, path, search) and the token
parseUrl(u) ==
  IF u.text # "url" THEN Null
  ELSE IF SearchGet(u.search, "arg") = "" THEN Null
  ELSE [wsFullUrl |-> << (IF u.protocol = "https:" THEN "wss:" ELSE "ws:"), "//", u.host >>
                        \o StripTrailingSlash(u.pathname) \o <<"/ws">> \o u.search,
        token |-> SearchGet(u.search, "arg")]

\* terminal geometries <<cols, rows>>
Geoms == {<<80, 24>>, <<120, 40>>}
DefaultGeom == <<80, 24>>

VARIABLES
  phase,            \* component lifecycle: "rendered", "mounted", "unmounted"
  wsUrl,            \* the wsUrl prop of the latest render
  initPc,           \* initTerminal: "idle", "importing", "done", "aborted", "failed"
  isMounted,        \* the init effect's isMounted flag
  terminal,         \* terminalRef.current: "null", "live", "disposed"
  geom,             \* terminal.cols / terminal.rows
  docTitle,         \* document.title
  effects,          \* closures of the connect effect runs that reached connect()
  sockets,          \* every WebSocket created, in creation order
  socketRef,        \* socketRef.current: index into sockets, 0 for null
  isConnected,      \* isConnected state
  terminalReady,    \* TerminalDisplay.terminalReady
  connectionStatus, \* TerminalDisplay.connectionStatus
  isAtBottomRef,    \* isAtBottomRef.current
  hasNewContent,    \* hasNewContent state
  newLineCount,     \* newLineCount state
  handlerHasNewContent, \* value of hasNewContent captured by the installed handlers
  lineFeedTimeout,  \* the debounce timer of onLineFeed is pending
  parsing,          \* the terminal holds written data it has not parsed yet
  baseY,            \* terminal.buffer.active.baseY
  viewportY,        \* terminal.buffer.active.viewportY
  curEffect,        \* index in effects of the closure whose cleanup is registered, 0 if none
  lfSince,          \* line feeds received since the user action that left the
                    \* viewport scrolled away with a zero counter and no pending
                    \* timer; -1 when there is no such run of line feeds
  btnArmed,         \* "armed": scroll-to-bottom was clicked while the debounce timer
                    \* was pending; "fired": that timer has expired since; else "no"
  raf,              \* pending animation-frame callbacks of an OUTPUT frame: subset of {1, 2}
  disconnectedCalls, \* calls of onDisconnected since the connect effect last started
  other,            \* a second XtermTerminal instance (another tab): its refs and state
  connectedCalls,   \* calls of onConnected made by this instance
  resizeListener,   \* handleWindowResize is registered on window
  inbox,            \* frames the server has sent on socketRef's socket, not yet dispatched
  handled,          \* the frames socket.onmessage has handled, in order
  calc,             \* a call of a pure function: its input and its result
  auth,             \* the SealosAutoAuth component and its environment
  renderer          \* a call of applyRenderer and the renderer addon refs

lifeVars == <<phase, wsUrl, initPc, isMounted, terminal, geom, docTitle>>
connVars == <<effects, sockets, socketRef, isConnected, connectionStatus, curEffect,
              disconnectedCalls, connectedCalls>>
viewVars == <<isAtBottomRef, hasNewContent, newLineCount, handlerHasNewContent,
              lineFeedTimeout, parsing, baseY, viewportY, raf>>
ghostVars == <<lfSince, btnArmed>>
vars == <<phase, wsUrl, initPc, isMounted, terminal, geom, docTitle, effects, sockets,
          socketRef, isConnected, terminalReady, connectionStatus, isAtBottomRef,
          hasNewContent, newLineCount, handlerHasNewContent, lineFeedTimeout,
          parsing, baseY, viewportY, curEffect, lfSince, btnArmed, raf,
          disconnectedCalls, other, connectedCalls, resizeListener, inbox, handled,
          calc, auth, renderer>>

\* state outside the terminal's transport and viewport
auxVars == <<resizeListener, inbox, handled, calc, auth, renderer>>

\* the refs, state and closures of this instance (the sockets and the effect
\* closures of both instances live in sockets and effects)
ownVars == <<phase, wsUrl, initPc, isMounted, terminal, geom, socketRef,
             isConnected, terminalReady, connectionStatus, isAtBottomRef,
             hasNewContent, newLineCount, handlerHasNewContent, lineFeedTimeout,
             parsing, baseY, viewportY, curEffect, lfSince, btnArmed, raf,
             disconnectedCalls, connectedCalls, auxVars>>

\* this instance's variables and document.title, which the page's instances share
tabVars == <<ownVars, docTitle>>

\* the other instance after its first render; runs are the indexes in effects
\* of the closures its connect effect created
OtherTabInit ==
  [phase |-> "rendered", wsUrl |-> UrlB, initPc |-> "idle", terminal |-> "null",
   socketRef |-> 0, isConnected |-> FALSE, connectionStatus |-> "connecting",
   curEffect |-> 0, parsing |-> FALSE, disconnectedCalls |-> 0,
   connectedCalls |-> 0,
   isAtBottomRef |-> TRUE, hasNewContent |-> FALSE, newLineCount |-> 0,
   baseY |-> 0, viewportY |-> 0, lineFeedTimeout |-> FALSE, raf |-> {},
   runs |-> {}]

\* char codes of the frame commands '0', '1', '2'
INPUT == 48
OUTPUT == 48
SET_WINDOW_TITLE == 49
SET_PREFERENCES == 50

\* sequences over S of length at most n
SeqsUpTo(S, n) == UNION {[1..k -> S] : k \in 0..n}

\* endpoint texts: a scheme, "//", a host, a path and a query; and a text
\* that is no URL
UrlPaths == {p \in SeqsUpTo({"/", "path"}, MaxPathLen) : p = <<>> \/ p[1] = "/"}
UrlQueries ==
  {<<>>, <<"?">>, <<"?", "arg", "=">>, <<"?", "x", "=", "1">>,
   <<"?", "arg", "=", "TOK">>, <<"?", "x", "=", "1", "&", "arg", "=", "TOK">>,
   <<"?", "arg", "=", "TOK", "&", "arg", "=", "T2">>}
UrlTexts ==
  {<<scheme, "//", "host">> \o path \o query :
     scheme \in {"https:", "http:"}, path \in UrlPaths, query \in UrlQueries}
  \cup {<<"host", "/", "path">>}

\* binary input: byte sequences with NUL, the INPUT byte and high bytes
ByteValues == {0, 48, 128, 255}
ByteSeqs == SeqsUpTo(ByteValues, MaxBytes)

\* the frame of sendData for binary data with a length byte after the command
encodeInputLengthPrefixed(b) ==
  <<INPUT, Len(b)>> \o b

\* the frame sendData sends for binary data b: a Uint8Array of b.length + 1
\* bytes, the INPUT char code at index 0 and b copied from index 1
encodeInput(b) ==
  [i \in 1..(Len(b) + 1) |-> IF i = 1 THEN INPUT ELSE b[i - 1]]

\* a call of a pure function: parseUrl on an endpoint text, or sendData's
\* framing of binary input followed by onmessage's split of the frame
CalcIdle == [kind |-> "none", pc |-> "done", input |-> <<>>, output |-> <<>>]
CalcInputs ==
  {[kind |-> "parseUrl", pc |-> "input", input |-> t, output |-> <<>>] : t \in UrlTexts}
  \cup {[kind |-> "sendData", pc |-> "input", input |-> b, output |-> <<>>] : b \in ByteSeqs}
MAX_RETRY_ATTEMPTS == 3

\* SealosAutoAuth after its first render, before the Sealos provider and the
\* session have initialised: status is useSession().status; hasCredentials is
\* sealosToken && sealosKubeconfig; inflight counts the calls of
\* authenticateWithSealos that have not settled, callRetryCount is the
\* retryCount their handlers closed over; timer is the retry delay; calls,
\* lastResult and redirected record what has happened
AuthIdle ==
  [status |-> "loading", isInitialized |-> FALSE, isLoading |-> TRUE, isSealos |-> FALSE,
   hasCredentials |-> FALSE, retryCount |-> 0, isAuthenticating |-> FALSE,
   authAttempted |-> FALSE, inflight |-> 0, callRetryCount |-> 0, timer |-> "none",
   calls |-> 0, lastResult |-> "none", redirected |-> FALSE]
AuthInputs ==
  {[AuthIdle EXCEPT !.isSealos = s, !.hasCredentials = c] : s \in BOOLEAN, c \in BOOLEAN}
\* applyRenderer has not been called: both addon refs are null; requested is
\* the rendererType prop; webglFails / canvasFails say where the back-end
\* fails ("import": the dynamic import or the constructor, before the ref is
\* assigned; "load": terminal.loadAddon, after it); disposeThrows says
\* whether dispose() of an addon throws
RendererTypes == {"webgl", "canvas", "dom"}
Failures == {"none", "import", "load"}
RendererIdle ==
  [pc |-> "idle", requested |-> "webgl", webglFails |-> "none", canvasFails |-> "none",
   disposeThrows |-> FALSE, webglAddonRef |-> "null", canvasAddonRef |-> "null",
   webglActive |-> FALSE, canvasActive |-> FALSE, attempts |-> <<>>, raised |-> FALSE]
RendererInputs ==
  {[RendererIdle EXCEPT !.requested = t, !.webglFails = w, !.canvasFails = c,
                        !.disposeThrows = d] :
     t \in RendererTypes, w \in Failures, c \in Failures, d \in BOOLEAN}

CoreInit ==
  /\ phase = "rendered"
  /\ wsUrl \in Urls
  /\ initPc = "idle"
  /\ isMounted = FALSE
  /\ terminal = "null"
  /\ geom = DefaultGeom
  /\ docTitle = <<>>
  /\ effects = <<>>
  /\ sockets = <<>>
  /\ socketRef = 0
  /\ isConnected = FALSE
  /\ terminalReady = FALSE
  /\ connectionStatus = "connecting"
  /\ isAtBottomRef = TRUE
  /\ hasNewContent = FALSE
  /\ newLineCount = 0
  /\ handlerHasNewContent = FALSE
  /\ lineFeedTimeout = FALSE
  /\ parsing = FALSE
  /\ baseY = 0
  /\ viewportY = 0
  /\ curEffect = 0
  /\ lfSince = -1
  /\ btnArmed = "no"
  /\ raf = {}
  /\ disconnectedCalls = 0
  /\ other = OtherTabInit
  /\ connectedCalls = 0
  /\ resizeListener = FALSE
  /\ inbox = <<>>
  /\ handled = <<>>

Init ==
  /\ CoreInit
  /\ calc = CalcIdle
  /\ auth = AuthIdle
  /\ renderer = RendererIdle

\* a terminal whose renderer back-ends fail in one of the possible ways
RendererInit ==
  /\ CoreInit
  /\ wsUrl = UrlEmpty
  /\ calc = CalcIdle
  /\ auth = AuthIdle
  /\ renderer \in RendererInputs

\* a page load, inside or outside Sealos, with or without credentials
AuthInit ==
  /\ CoreInit
  /\ wsUrl = UrlEmpty
  /\ calc = CalcIdle
  /\ auth \in AuthInputs
  /\ renderer = RendererIdle

\* a call of a pure function on one of its inputs, outside any component
PureInit ==
  /\ CoreInit
  /\ wsUrl = UrlEmpty
  /\ calc \in CalcInputs
  /\ auth = AuthIdle
  /\ renderer = RendererIdle

\* ------------------------------------------------------ connection state
\* The operators below take and return a record c of the connection state
\* (effects, sockets, socketRef, isConnected, connectionStatus, parsing,
\* curEffect, disconnectedCalls), so that an action can run several handlers
\* in sequence.
Conn ==
  [effects |-> effects, sockets |-> sockets, socketRef |-> socketRef,
   isConnected |-> isConnected, connectionStatus |-> connectionStatus,
   parsing |-> parsing, curEffect |-> curEffect,
   disconnectedCalls |-> disconnectedCalls, connectedCalls |-> connectedCalls]

SetConn(c) ==
  /\ effects' = c.effects
  /\ sockets' = c.sockets
  /\ socketRef' = c.socketRef
  /\ isConnected' = c.isConnected
  /\ connectionStatus' = c.connectionStatus
  /\ parsing' = c.parsing
  /\ curEffect' = c.curEffect
  /\ disconnectedCalls' = c.disconnectedCalls
  /\ connectedCalls' = c.connectedCalls

NewSocket(g) ==
  [gen |-> g, readyState |-> CONNECTING, handlers |-> TRUE, code |-> 0,
   localClose |-> "none", sent |-> <<>>, timer |-> "none", notice |-> "none",
   opened |-> FALSE, openGeom |-> <<0, 0>>, lateOpen |-> FALSE]

\* TerminalDisplay.handleConnected / handleDisconnected
handleConnected(c) ==
  [c EXCEPT !.connectionStatus = "connected", !.connectedCalls = @ + 1]
handleDisconnected(c) ==
  [c EXCEPT !.connectionStatus = "connecting", !.disconnectedCalls = @ + 1]

\* terminal.write(...): the data is parsed later; a disposed terminal ignores it
TerminalWrite(c, term) ==
  IF term = "live" THEN [c EXCEPT !.parsing = TRUE] ELSE c

\* connect() of the effect closure g
connect(c, g) ==
  IF c.effects[g].isCleaningUp THEN c
  ELSE LET idx == Len(c.sockets) + 1 IN
       [c EXCEPT !.sockets = Append(@, NewSocket(g)),
                 !.effects[g].socket = idx,
                 !.socketRef = idx]

\* the body of the connect effect for the props of the render
ConnectEffect(c0, u, term) ==
  LET c == [c0 EXCEPT !.disconnectedCalls = 0] IN
  IF u.text = "empty" \/ term = "null" THEN [c EXCEPT !.curEffect = 0]
  ELSE IF parseUrl(u) = Null THEN handleDisconnected([c EXCEPT !.curEffect = 0])
  ELSE LET g == Len(c.effects) + 1
           closure == [url |-> u, token |-> parseUrl(u).token,
                       wsFullUrl |-> parseUrl(u).wsFullUrl,
                       socket |-> 0, reconnectTimeoutId |-> 0,
                       isCleaningUp |-> FALSE]
       IN connect([c EXCEPT !.effects = Append(@, closure), !.curEffect = g], g)

\* clearTimeout(id) on the reconnect timer scheduled by the close of socket id
ClearReconnect(socks, id) ==
  IF id # 0 /\ socks[id].timer = "pending"
  THEN [socks EXCEPT ![id].timer = "cleared"] ELSE socks

\* socket.close(code) called locally; how is "1000" or "nocode"
LocalClose(socks, s, how) ==
  IF socks[s].readyState \in {CONNECTING, OPEN}
  THEN [socks EXCEPT ![s].readyState = CLOSING, ![s].localClose = how]
  ELSE socks

\* ConnectCleanup that only closes the socket: no flag, timer and handlers kept
ConnectCleanupCloseOnly(c, g) ==
  LET s == c.effects[g].socket
  IN IF s = 0 THEN c ELSE [c EXCEPT !.sockets = LocalClose(@, s, "1000")]

\* ConnectCleanup that forgets the socket: flag and timer only
ConnectCleanupKeepSocket(c, g) ==
  LET e == c.effects[g]
  IN [c EXCEPT !.effects[g].isCleaningUp = TRUE,
               !.effects[g].reconnectTimeoutId = 0,
               !.sockets = ClearReconnect(@, e.reconnectTimeoutId),
               !.isConnected = FALSE]

\* ConnectCleanup that closes the socket but leaves its handlers attached
ConnectCleanupKeepHandlers(c, g) ==
  LET e == c.effects[g]
      s == e.socket
      c1 == [c EXCEPT !.effects[g].isCleaningUp = TRUE,
                      !.effects[g].reconnectTimeoutId = 0,
                      !.sockets = ClearReconnect(@, e.reconnectTimeoutId)]
      c2 == IF s = 0 THEN c1
            ELSE [c1 EXCEPT !.sockets = LocalClose(@, s, "1000"),
                            !.effects[g].socket = 0,
                            !.socketRef = 0]
  IN [c2 EXCEPT !.isConnected = FALSE]

\* the cleanup function returned by the connect effect run g
ConnectCleanup(c, g) ==
  LET e == c.effects[g]
      s == e.socket
      c1 == [c EXCEPT !.effects[g].isCleaningUp = TRUE,
                      !.effects[g].reconnectTimeoutId = 0,
                      !.sockets = ClearReconnect(@, e.reconnectTimeoutId)]
      c2 == IF s = 0 THEN c1
            ELSE [c1 EXCEPT
                    !.sockets = LET h == [@ EXCEPT ![s].handlers = FALSE]
                                IN IF h[s].readyState \in {OPEN, CONNECTING}
                                   THEN LocalClose(h, s, "1000") ELSE h,
                    !.effects[g].socket = 0,
                    !.socketRef = 0]
  IN [c2 EXCEPT !.isConnected = FALSE]

\* ------------------------------------------------------------- frames
\* client frames: the unprefixed JSON handshake, '0' + input, '1' + JSON size
Handshake(tok, g) ==
  [cmd |-> "handshake", AuthToken |-> tok, columns |-> g[1], rows |-> g[2], data |-> ""]
InputFrame(d) ==
  [cmd |-> "0", AuthToken |-> "", columns |-> 0, rows |-> 0, data |-> d]
ResizeFrame(g) ==
  [cmd |-> "1", AuthToken |-> "", columns |-> g[1], rows |-> g[2], data |-> ""]

\* socket.send(frame) on socket s
Send(socks, s, f) == [socks EXCEPT ![s].sent = Append(@, f)]

\* onopen that reports the default geometry instead of the terminal's
onopenDefaultSize(c, s, g, term) ==
  LET e == c.effects[c.sockets[s].gen]
      c1 == handleConnected([c EXCEPT !.isConnected = TRUE])
  IN IF e.socket = 0 THEN c1
     ELSE [c1 EXCEPT !.sockets = Send(@, e.socket, Handshake(e.token, DefaultGeom))]

\* onopen that calls onConnected before and after the handshake
onopenNotifyTwice(c, s, g, term) ==
  LET e == c.effects[c.sockets[s].gen]
      c1 == handleConnected(handleConnected([c EXCEPT !.isConnected = TRUE]))
  IN IF e.socket = 0 THEN c1
     ELSE [c1 EXCEPT !.sockets = Send(@, e.socket, Handshake(e.token, g))]

\* socket.onopen of socket s
onopen(c, s, g, term) ==
  LET e == c.effects[c.sockets[s].gen]
      c1 == handleConnected([c EXCEPT !.isConnected = TRUE])
  IN IF e.socket = 0 THEN c1
     ELSE [c1 EXCEPT !.sockets = Send(@, e.socket, Handshake(e.token, g))]

\* reconnectCallback as a repeating timer: it stays scheduled after it ran
reconnectCallbackInterval(c, s) ==
  LET g == c.sockets[s].gen
  IN IF ~c.effects[g].isCleaningUp THEN connect(c, g) ELSE c

\* the callback of the reconnect timer scheduled by the close of socket s
reconnectCallback(c, s) ==
  LET g == c.sockets[s].gen
      c1 == [c EXCEPT !.sockets[s].timer = "fired"]
  IN IF ~c1.effects[g].isCleaningUp THEN connect(c1, g) ELSE c1

\* onclose with a retry cap: only the first close of an effect run reconnects
oncloseCapped(c, s, code, term) ==
  LET g == c.sockets[s].gen
      c1 == handleDisconnected([c EXCEPT !.isConnected = FALSE, !.socketRef = 0])
      first == \A t \in 1..(s - 1) : c.sockets[t].gen # g
  IN IF ~c1.effects[g].isCleaningUp /\ code # NormalClosure /\ first
     THEN TerminalWrite([c1 EXCEPT !.sockets[s].notice = "lost",
                                   !.sockets[s].timer = "pending",
                                   !.effects[g].reconnectTimeoutId = s], term)
     ELSE TerminalWrite([c1 EXCEPT !.sockets[s].notice = "closed"], term)

\* socket.onclose of socket s with event.code = code
onclose(c, s, code, term) ==
  LET g == c.sockets[s].gen
      c1 == handleDisconnected([c EXCEPT !.isConnected = FALSE, !.socketRef = 0])
  IN IF ~c1.effects[g].isCleaningUp /\ code # NormalClosure
     THEN TerminalWrite([c1 EXCEPT !.sockets[s].notice = "lost",
                                   !.sockets[s].timer = "pending",
                                   !.effects[g].reconnectTimeoutId = s], term)
     ELSE TerminalWrite([c1 EXCEPT !.sockets[s].notice = "closed"], term)

\* sendData without the readyState test: sends whenever there is a socket
sendDataAnyState(c, d) ==
  IF c.socketRef = 0 THEN c
  ELSE [c EXCEPT !.sockets = Send(@, c.socketRef, InputFrame(d))]

\* sendData(data): INPUT frame on socketRef.current if it is OPEN
sendData(c, d) ==
  IF c.socketRef = 0 THEN c
  ELSE IF c.sockets[c.socketRef].readyState # OPEN THEN c
  ELSE [c EXCEPT !.sockets = Send(@, c.socketRef, InputFrame(d))]

\* onResize that reports rows as columns and columns as rows
onResizeSwapped(c, g) ==
  IF c.socketRef # 0 /\ c.sockets[c.socketRef].readyState = OPEN
  THEN [c EXCEPT !.sockets = Send(@, c.socketRef, ResizeFrame(<<g[2], g[1]>>))]
  ELSE c

\* terminal.onResize handler
onResize(c, g) ==
  IF c.socketRef # 0 /\ c.sockets[c.socketRef].readyState = OPEN
  THEN [c EXCEPT !.sockets = Send(@, c.socketRef, ResizeFrame(g))]
  ELSE c

\* ------------------------------------------------------------ renderer
\* The operators below take and return a record r of the renderer state.
\* "Dispose existing renderers": each dispose() is in its own try block; when
\* it throws, the assignment of null after it is skipped
DisposeExisting(r) ==
  LET r1 == IF r.webglAddonRef = "set" /\ ~r.disposeThrows
            THEN [r EXCEPT !.webglAddonRef = "null", !.webglActive = FALSE] ELSE r
  IN IF r1.canvasAddonRef = "set" /\ ~r1.disposeThrows
     THEN [r1 EXCEPT !.canvasAddonRef = "null", !.canvasActive = FALSE] ELSE r1

\* applyRenderer(type) up to its first await; term is terminalRef.current
applyRenderer(r, type, term) ==
  IF term = "null" THEN [r EXCEPT !.pc = "done"]
  ELSE LET r1 == [DisposeExisting(r) EXCEPT !.attempts = Append(@, type)]
       IN CASE type = "webgl" -> [r1 EXCEPT !.pc = "webgl"]
            [] type = "canvas" -> [r1 EXCEPT !.pc = "canvas"]
            [] OTHER -> [r1 EXCEPT !.pc = "done"]

\* the canvas case without its try/catch: a failure rejects the promise
canvasCaseUncaught(r, term) ==
  CASE r.canvasFails = "import" -> [r EXCEPT !.pc = "done", !.raised = TRUE]
    [] r.canvasFails = "load" ->
         [r EXCEPT !.pc = "done", !.canvasAddonRef = "set", !.raised = TRUE]
    [] OTHER -> [r EXCEPT !.pc = "done", !.canvasAddonRef = "set", !.canvasActive = TRUE]

\* case 'canvas' after its import resolved or rejected: on a failure the
\* catch block logs and the terminal keeps its DOM renderer
canvasCase(r, term) ==
  CASE r.canvasFails = "import" -> [r EXCEPT !.pc = "done", !.attempts = Append(@, "dom")]
    [] r.canvasFails = "load" ->
         [r EXCEPT !.pc = "done", !.canvasAddonRef = "set", !.attempts = Append(@, "dom")]
    [] OTHER -> [r EXCEPT !.pc = "done", !.canvasAddonRef = "set", !.canvasActive = TRUE]

\* the webgl case that tries WebGL again when it fails
webglCaseRetry(r, term) ==
  CASE r.webglFails = "import" -> applyRenderer(r, "webgl", term)
    [] r.webglFails = "load" ->
         applyRenderer([r EXCEPT !.webglAddonRef = "set"], "webgl", term)
    [] OTHER -> [r EXCEPT !.pc = "done", !.webglAddonRef = "set", !.webglActive = TRUE]

\* case 'webgl' after its import resolved or rejected: on a failure the
\* catch block calls applyRenderer('canvas')
webglCase(r, term) ==
  CASE r.webglFails = "import" -> applyRenderer(r, "canvas", term)
    [] r.webglFails = "load" ->
         applyRenderer([r EXCEPT !.webglAddonRef = "set"], "canvas", term)
    [] OTHER -> [r EXCEPT !.pc = "done", !.webglAddonRef = "set", !.webglActive = TRUE]

\* the init effect cleanup disposes the addons the refs hold (outside any
\* try block, the refs are kept): a dispose() that throws ends the cleanup
CleanupThrows(r) ==
  r.disposeThrows /\ (r.webglAddonRef = "set" \/ r.canvasAddonRef = "set")
CleanupAddons(r) ==
  IF r.disposeThrows THEN r
  ELSE [r EXCEPT !.webglActive = FALSE, !.canvasActive = FALSE]

\* ------------------------------------------------------- SealosAutoAuth
\* The operators below take and return a record a of the component's state.
\* the effect without the authAttempted guard
SealosAutoAuthEffectNoRef(a) ==
  IF ~a.isInitialized \/ a.isLoading \/ a.status = "loading" THEN a
  ELSE IF a.status = "authenticated" THEN [a EXCEPT !.redirected = TRUE]
  ELSE IF /\ a.isSealos
          /\ a.status = "unauthenticated"
          /\ a.hasCredentials
          /\ ~a.isAuthenticating
          /\ a.retryCount < MAX_RETRY_ATTEMPTS
       THEN [a EXCEPT !.authAttempted = TRUE, !.isAuthenticating = TRUE,
                      !.inflight = @ + 1, !.calls = @ + 1,
                      !.callRetryCount = a.retryCount, !.lastResult = "pending"]
       ELSE a

\* the effect of SealosAutoAuth, run after a render in which one of its
\* dependencies changed (the render that follows setIsAuthenticating(true)
\* runs it again, without effect)
SealosAutoAuthEffect(a) ==
  IF ~a.isInitialized \/ a.isLoading \/ a.status = "loading" THEN a
  ELSE IF a.status = "authenticated" THEN [a EXCEPT !.redirected = TRUE]
  ELSE IF /\ a.isSealos
          /\ a.status = "unauthenticated"
          /\ a.hasCredentials
          /\ ~a.authAttempted
          /\ ~a.isAuthenticating
          /\ a.retryCount < MAX_RETRY_ATTEMPTS
       THEN [a EXCEPT !.authAttempted = TRUE, !.isAuthenticating = TRUE,
                      !.inflight = @ + 1, !.calls = @ + 1,
                      !.callRetryCount = a.retryCount, !.lastResult = "pending"]
       ELSE a

\* outcomes of a call: result.success, a result without success, a rejection
Outcomes == {"success", "failure", "rejection"}

\* the .then / .catch handlers of the call, which closed over retryCount
authSettled(a, outcome) ==
  LET a1 == [a EXCEPT !.inflight = @ - 1, !.lastResult = outcome]
  IN IF outcome = "success" THEN [a1 EXCEPT !.redirected = TRUE]
     ELSE IF a.callRetryCount < MAX_RETRY_ATTEMPTS - 1 THEN [a1 EXCEPT !.timer = "pending"]
     ELSE SealosAutoAuthEffect([a1 EXCEPT !.isAuthenticating = FALSE])

\* the callback of the retry timer
retryCallback(a) ==
  SealosAutoAuthEffect([a EXCEPT !.timer = "elapsed", !.authAttempted = FALSE,
                                 !.isAuthenticating = FALSE, !.retryCount = @ + 1])

\* what the component renders
Screen(a) ==
  IF a.isLoading \/ a.status = "loading" THEN "loading"
  ELSE IF a.isSealos /\ a.isAuthenticating THEN "authenticating"
  ELSE IF a.isSealos /\ a.retryCount >= MAX_RETRY_ATTEMPTS /\ ~a.isAuthenticating THEN "failed"
  ELSE "none"

\* ----------------------------------------------------------- lifecycle
\* First commit: the init effect starts initTerminal (which suspends at its
\* first dynamic import), then the connect effect runs in the same flush.
MountEffects ==
  /\ phase = "rendered"
  /\ phase' = "mounted"
  /\ isMounted' = TRUE
  /\ initPc' = "importing"
  /\ SetConn(ConnectEffect(Conn, wsUrl, terminal))
  /\ UNCHANGED <<wsUrl, terminal, geom, docTitle, terminalReady, isAtBottomRef, hasNewContent,
                 newLineCount, handlerHasNewContent, lineFeedTimeout, baseY,
                 viewportY, raf, ghostVars>>
  /\ UNCHANGED <<other, auxVars>>

\* initTerminal resumes after the dynamic imports resolved
InitTerminalResume ==
  /\ initPc = "importing"
  /\ IF ~isMounted
     THEN /\ initPc' = "aborted"
          /\ UNCHANGED <<terminal, terminalReady, handlerHasNewContent, resizeListener>>
     ELSE /\ initPc' = "done"
          /\ terminal' = "live"
          /\ handlerHasNewContent' = FALSE
          /\ terminalReady' = TRUE
          /\ resizeListener' = TRUE
  /\ UNCHANGED <<phase, wsUrl, isMounted, geom, docTitle, connVars, isAtBottomRef,
                 hasNewContent, newLineCount, lineFeedTimeout, parsing, baseY,
                 viewportY, raf, ghostVars>>
  /\ UNCHANGED <<other, inbox, handled, calc, auth, renderer>>

\* a dynamic import rejects: the catch block logs and initTerminal ends
InitTerminalFail ==
  /\ initPc = "importing"
  /\ initPc' = "failed"
  /\ UNCHANGED <<phase, wsUrl, isMounted, terminal, geom, docTitle, connVars, terminalReady,
                 viewVars, ghostVars>>
  /\ UNCHANGED <<other, auxVars>>

\* a re-render with a changed dependency of the connect effect (a new wsUrl,
\* or the same wsUrl with a new callback identity): cleanup, then the effect
ChangeProps(u) ==
  /\ phase = "mounted"
  /\ Len(effects) < MaxEffects
  /\ Len(sockets) < MaxSockets
  /\ wsUrl' = u
  /\ LET c0 == IF curEffect # 0 THEN ConnectCleanup(Conn, curEffect) ELSE Conn
     IN SetConn(ConnectEffect(c0, u, terminal))
  /\ UNCHANGED <<phase, initPc, isMounted, terminal, geom, docTitle, terminalReady,
                 isAtBottomRef, hasNewContent, newLineCount, handlerHasNewContent,
                 lineFeedTimeout, baseY, viewportY, raf, ghostVars>>
  /\ UNCHANGED <<other, auxVars>>

\* InitCleanup over a socket registry shared by all instances
InitCleanupShared(c) ==
  [c EXCEPT !.sockets = [s \in DOMAIN @ |-> LocalClose(@, s, "nocode")[s]]]

\* the cleanup of the init effect: socketRef.current?.close(), dispose
InitCleanup(c) ==
  IF c.socketRef = 0 THEN c
  ELSE [c EXCEPT !.sockets = LocalClose(@, c.socketRef, "nocode")]

\* unmount: the init effect's cleanup, then the connect effect's cleanup
Unmount ==
  /\ phase = "mounted"
  /\ phase' = "unmounted"
  /\ isMounted' = FALSE
  /\ terminal' = IF terminal = "live" /\ ~CleanupThrows(renderer) THEN "disposed" ELSE terminal
  /\ renderer' = CleanupAddons(renderer)
  /\ LET c0 == InitCleanup(Conn)
         c1 == IF curEffect # 0 THEN ConnectCleanup(c0, curEffect) ELSE c0
     IN SetConn([c1 EXCEPT !.parsing = IF terminal' = "live" THEN @ ELSE FALSE,
                           !.curEffect = 0])
  /\ UNCHANGED <<wsUrl, initPc, geom, docTitle, terminalReady, isAtBottomRef, hasNewContent,
                 newLineCount, handlerHasNewContent, lineFeedTimeout, baseY,
                 viewportY, raf, ghostVars>>
  /\ UNCHANGED <<other, resizeListener, inbox, handled, calc, auth>>

\* ------------------------------------------------------------- network
\* the connection of socket s is established; onopen runs if still attached
SocketOpen(s) ==
  /\ sockets[s].gen \notin other.runs
  /\ sockets[s].readyState = CONNECTING
  /\ LET c0 == [Conn EXCEPT !.sockets[s].readyState = OPEN, !.sockets[s].opened = TRUE,
                               !.sockets[s].openGeom = geom]
     IN SetConn(IF sockets[s].handlers THEN onopen(c0, s, geom, terminal) ELSE c0)
  /\ UNCHANGED <<lifeVars, terminalReady, isAtBottomRef, hasNewContent, newLineCount,
                 handlerHasNewContent, lineFeedTimeout, baseY, viewportY, raf, ghostVars>>
  /\ UNCHANGED <<other, auxVars>>

\* the connect attempt of socket s was succeeding when close() was called on
\* it: the open event of the attempt is delivered to the onopen handler that
\* is attached, if any; the socket stays CLOSING
LateOpen(s) ==
  /\ sockets[s].gen \notin other.runs
  /\ sockets[s].readyState = CLOSING
  /\ ~sockets[s].opened
  /\ ~sockets[s].lateOpen
  /\ LET c0 == [Conn EXCEPT !.sockets[s].lateOpen = TRUE]
     IN SetConn(IF sockets[s].handlers THEN onopen(c0, s, geom, terminal) ELSE c0)
  /\ UNCHANGED <<lifeVars, terminalReady, isAtBottomRef, hasNewContent, newLineCount,
                 handlerHasNewContent, lineFeedTimeout, baseY, viewportY, raf, ghostVars>>
  /\ UNCHANGED <<other, auxVars>>

\* socket s closes with close code code; onclose runs if still attached
SocketClose(s, code) ==
  /\ sockets[s].gen \notin other.runs
  /\ sockets[s].readyState # CLOSED
  /\ \/ sockets[s].localClose = "none" /\ code \in RemoteCloseCodes
        /\ (sockets[s].readyState = CONNECTING => code = 1006)
     \/ sockets[s].localClose = "1000" /\ code = (IF sockets[s].opened THEN 1000 ELSE 1006)
     \/ sockets[s].localClose = "nocode" /\ code = (IF sockets[s].opened THEN 1005 ELSE 1006)
  /\ (sockets[s].handlers /\ code # NormalClosure) => Len(sockets) < MaxSockets
  /\ LET c0 == [Conn EXCEPT !.sockets[s].readyState = CLOSED, !.sockets[s].code = code]
     IN SetConn(IF sockets[s].handlers THEN onclose(c0, s, code, terminal) ELSE c0)
  /\ UNCHANGED <<lifeVars, terminalReady, isAtBottomRef, hasNewContent, newLineCount,
                 handlerHasNewContent, lineFeedTimeout, baseY, viewportY, raf, ghostVars>>
  /\ UNCHANGED <<other, auxVars>>

\* the 3000 ms reconnect timer scheduled by the close of socket s expires
ReconnectTimeout(s) ==
  /\ sockets[s].gen \notin other.runs
  /\ sockets[s].timer = "pending"
  /\ SetConn(reconnectCallback(Conn, s))
  /\ UNCHANGED <<lifeVars, terminalReady, isAtBottomRef, hasNewContent, newLineCount,
                 handlerHasNewContent, lineFeedTimeout, baseY, viewportY, raf, ghostVars>>
  /\ UNCHANGED <<other, auxVars>>

\* ------------------------------------------------------------ viewport
\* The operators below take and return a record v of the viewport state.
View ==
  [isAtBottomRef |-> isAtBottomRef, hasNewContent |-> hasNewContent,
   newLineCount |-> newLineCount, baseY |-> baseY, viewportY |-> viewportY]

SetView(v) ==
  /\ isAtBottomRef' = v.isAtBottomRef
  /\ hasNewContent' = v.hasNewContent
  /\ newLineCount' = v.newLineCount
  /\ baseY' = v.baseY
  /\ viewportY' = v.viewportY

isTerminalAtBottom(v) == v.viewportY >= v.baseY - threshold

\* setHasNewContent(false); setNewLineCount(0): ignored once unmounted
ClearIndicator(v, ph) ==
  IF ph = "mounted" THEN [v EXCEPT !.hasNewContent = FALSE, !.newLineCount = 0] ELSE v

\* terminal.onScroll handler; captured is the handlers' hasNewContent
onScroll(v, captured, ph) ==
  LET wasAtBottom == v.isAtBottomRef
      nowAtBottom == isTerminalAtBottom(v)
  IN IF wasAtBottom # nowAtBottom
     THEN LET v1 == [v EXCEPT !.isAtBottomRef = nowAtBottom]
          IN IF nowAtBottom /\ captured THEN ClearIndicator(v1, ph) ELSE v1
     ELSE v

\* terminal.scrollToBottom(): the viewport moves to the base line and the
\* terminal emits a scroll event if the position changed
scrollToBottom(v, captured, ph, term) ==
  IF term # "live" \/ v.viewportY = v.baseY THEN v
  ELSE onScroll([v EXCEPT !.viewportY = v.baseY], captured, ph)

\* the common part of terminal.onData / terminal.onBinary
localInput(v, captured, ph, term) ==
  LET v1 == IF ~v.isAtBottomRef
            THEN [scrollToBottom(v, captured, ph, term) EXCEPT !.isAtBottomRef = TRUE]
            ELSE v
  IN IF captured THEN ClearIndicator(v1, ph) ELSE v1

\* lineFeedCallback that counts every line feed, at the bottom or not
lineFeedCallbackAlwaysCount(v, captured, ph, term) ==
  IF ph = "mounted"
  THEN [v EXCEPT !.hasNewContent = TRUE, !.newLineCount = @ + 1]
  ELSE v

\* the debounce callback of onLineFeed
lineFeedCallback(v, captured, ph, term) ==
  IF v.isAtBottomRef THEN scrollToBottom(v, captured, ph, term)
  ELSE IF ph = "mounted"
       THEN [v EXCEPT !.hasNewContent = TRUE, !.newLineCount = @ + 1]
       ELSE v

\* handleScrollToBottom that only hides the indicator
handleScrollToBottomHideOnly(v, captured, ph, term) ==
  IF term = "null" THEN v
  ELSE [v EXCEPT !.hasNewContent = FALSE, !.newLineCount = 0]

\* handleScrollToBottom (the indicator button)
handleScrollToBottom(v, captured, ph, term) ==
  IF term = "null" THEN v
  ELSE [scrollToBottom(v, captured, ph, term) EXCEPT
          !.isAtBottomRef = TRUE, !.hasNewContent = FALSE, !.newLineCount = 0]

\* a user action starts a new run of line feeds
UserActionGhost(v) ==
  lfSince' = IF ~v.isAtBottomRef /\ v.newLineCount = 0 /\ ~lineFeedTimeout THEN 0 ELSE -1

\* bound: at most MaxSent frames are recorded per socket
SendBound == socketRef # 0 /\ sockets[socketRef].readyState = OPEN
               => Len(sockets[socketRef].sent) < MaxSent

\* the user types: terminal.onData
OnData ==
  /\ terminal = "live"
  /\ SendBound
  /\ LET v == localInput(View, handlerHasNewContent, phase, terminal)
     IN SetView(v) /\ UserActionGhost(v)
  /\ SetConn(sendData(Conn, "text"))
  /\ UNCHANGED btnArmed
  /\ UNCHANGED <<lifeVars, terminalReady, handlerHasNewContent, lineFeedTimeout, raf>>
  /\ UNCHANGED <<other, auxVars>>

\* binary input (e.g. mouse reports): terminal.onBinary
OnBinary ==
  /\ terminal = "live"
  /\ SendBound
  /\ LET v == localInput(View, handlerHasNewContent, phase, terminal)
     IN SetView(v) /\ UserActionGhost(v)
  /\ SetConn(sendData(Conn, "bytes"))
  /\ UNCHANGED btnArmed
  /\ UNCHANGED <<lifeVars, terminalReady, handlerHasNewContent, lineFeedTimeout, raf>>
  /\ UNCHANGED <<other, auxVars>>

\* the user scrolls the viewport to line y: terminal.onScroll
UserScroll(y) ==
  /\ terminal = "live"
  /\ y \in 0..baseY
  /\ y # viewportY
  /\ LET v == onScroll([View EXCEPT !.viewportY = y], handlerHasNewContent, phase)
     IN SetView(v) /\ UserActionGhost(v) /\ btnArmed' = (IF v.isAtBottomRef THEN btnArmed ELSE "no")
  /\ UNCHANGED <<lifeVars, connVars, terminalReady, handlerHasNewContent,
                 lineFeedTimeout, parsing, raf>>
  /\ UNCHANGED <<other, auxVars>>

\* the buffer after one line feed: it scrolls (the base line moves, or at the
\* scrollback limit the oldest line is dropped) or the cursor only moves down
BufferLineFeed(v, scrolls) ==
  IF ~scrolls THEN v
  ELSE IF v.baseY < MaxBase
       THEN [v EXCEPT !.baseY = @ + 1,
                      !.viewportY = IF v.viewportY = v.baseY THEN @ + 1 ELSE @]
       ELSE [v EXCEPT !.viewportY = IF v.viewportY = v.baseY \/ @ = 0 THEN @ ELSE @ - 1]

\* the terminal parses a line feed of written data: terminal.onLineFeed
\* (re)arms the debounce timer; a scroll of the buffer emits a scroll event
LineFeed(scrolls) ==
  /\ terminal = "live"
  /\ parsing
  /\ newLineCount < MaxLines
  /\ lfSince < MaxLines
  /\ LET v == BufferLineFeed(View, scrolls)
         w == IF scrolls THEN onScroll(v, handlerHasNewContent, phase) ELSE v
     IN /\ SetView(w)
        /\ lfSince' = IF lfSince >= 0 /\ ~w.isAtBottomRef THEN lfSince + 1 ELSE -1
  /\ lineFeedTimeout' = TRUE
  /\ btnArmed' = "no"
  /\ UNCHANGED <<lifeVars, connVars, terminalReady, handlerHasNewContent, parsing,
                 raf>>
  /\ UNCHANGED <<other, auxVars>>

\* the terminal finished parsing the written data
ParseDone ==
  /\ parsing
  /\ parsing' = FALSE
  /\ UNCHANGED <<lifeVars, connVars, terminalReady, isAtBottomRef, hasNewContent,
                 newLineCount, handlerHasNewContent, lineFeedTimeout, baseY,
                 viewportY, raf, ghostVars>>
  /\ UNCHANGED <<other, auxVars>>

\* the 10 ms debounce timer of onLineFeed expires
LineFeedTimeout ==
  /\ lineFeedTimeout
  /\ lineFeedTimeout' = FALSE
  /\ SetView(lineFeedCallback(View, handlerHasNewContent, phase, terminal))
  /\ btnArmed' = (IF btnArmed = "armed" THEN "fired" ELSE "no")
  /\ UNCHANGED <<lifeVars, connVars, terminalReady, handlerHasNewContent, parsing,
                 raf, lfSince>>
  /\ UNCHANGED <<other, auxVars>>

\* the user clicks the "n new lines" button, rendered while hasNewContent
ScrollToBottomClick ==
  /\ phase = "mounted"
  /\ hasNewContent
  /\ LET v == handleScrollToBottom(View, handlerHasNewContent, phase, terminal)
     IN SetView(v) /\ UserActionGhost(v)
  /\ btnArmed' = (IF lineFeedTimeout THEN "armed" ELSE "no")
  /\ UNCHANGED <<lifeVars, connVars, terminalReady, handlerHasNewContent,
                 lineFeedTimeout, parsing, raf>>
  /\ UNCHANGED <<other, auxVars>>

\* --------------------------------------------------------- server frames
\* first bytes of inbound frames: OUTPUT, SET_WINDOW_TITLE, SET_PREFERENCES
\* and a byte that is no command; payload texts
ServerCommands == {"0", "1", "2", "?"}
Payloads == {"My Title", "other"}

\* String.fromCharCode(b) for the first byte of a frame; the first element
\* of an empty Uint8Array is undefined, which gives the character U+0000
fromCharCode(b) ==
  CASE b = OUTPUT -> "0"
    [] b = SET_WINDOW_TITLE -> "1"
    [] b = SET_PREFERENCES -> "2"
    [] b = 0 -> "NUL"
    [] OTHER -> "?"

\* cmd and data of socket.onmessage for a frame (a sequence of bytes)
FrameCmd(frame) == fromCharCode(IF frame = <<>> THEN 0 ELSE frame[1])
FrameData(frame) == SubSeq(frame, 2, Len(frame))

\* TextDecoder.decode: the code points of the text; a byte that is no valid
\* UTF-8 (0xF8..0xFF never is) decodes to U+FFFD, an ASCII byte to itself
ReplacementChar == 65533
TextDecode(bytes) ==
  [i \in 1..Len(bytes) |-> IF bytes[i] < 128 THEN bytes[i] ELSE ReplacementChar]

\* onmessage that closes the socket when the first byte is no command
onmessageCloseUnknown(s, cmd, text) ==
  /\ sockets[s].gen \notin other.runs
  /\ sockets[s].readyState = OPEN
  /\ sockets[s].handlers
  /\ IF cmd = "0"
     THEN /\ SetConn(TerminalWrite(Conn, terminal))
          /\ raf' = IF isAtBottomRef THEN raf \cup {1} ELSE raf
          /\ UNCHANGED docTitle
     ELSE IF cmd \in {"1", "2"}
     THEN /\ docTitle' = IF cmd = "1" THEN text ELSE docTitle
          /\ UNCHANGED <<connVars, parsing, raf>>
     ELSE /\ SetConn([Conn EXCEPT !.sockets = LocalClose(@, s, "nocode")])
          /\ UNCHANGED <<docTitle, raf>>
  /\ UNCHANGED <<phase, wsUrl, initPc, isMounted, terminal, geom, terminalReady,
                 isAtBottomRef, hasNewContent, newLineCount, handlerHasNewContent,
                 lineFeedTimeout, baseY, viewportY, ghostVars>>

\* socket.onmessage of socket s for a frame with first byte cmd and payload text
onmessage(s, cmd, text) ==
  /\ sockets[s].gen \notin other.runs
  /\ sockets[s].readyState = OPEN
  /\ sockets[s].handlers
  /\ IF cmd = "0"
     THEN /\ SetConn(TerminalWrite(Conn, terminal))
          /\ raf' = IF isAtBottomRef THEN raf \cup {1} ELSE raf
          /\ UNCHANGED docTitle
     ELSE /\ docTitle' = IF cmd = "1" THEN text ELSE docTitle
          /\ UNCHANGED <<connVars, parsing, raf>>
  /\ UNCHANGED <<phase, wsUrl, initPc, isMounted, terminal, geom, terminalReady,
                 isAtBottomRef, hasNewContent, newLineCount, handlerHasNewContent,
                 lineFeedTimeout, baseY, viewportY, ghostVars>>

\* a message event on socket s: the frame is handled as it arrives
OnMessage(s, cmd, text) ==
  /\ onmessage(s, cmd, text)
  /\ UNCHANGED <<other, auxVars>>

\* the frames the server sends: empty, an unknown first byte, OUTPUT,
\* SET_WINDOW_TITLE with an ASCII and with a high byte, SET_PREFERENCES
InboundFrames ==
  {<<>>, <<63, 77>>, <<OUTPUT, 77>>, <<SET_WINDOW_TITLE, 77>>, <<SET_PREFERENCES, 77>>}

\* the server sends a frame on this instance's open socket; the message event
\* is queued behind the events of the frames sent before
ServerSend(frame) ==
  /\ socketRef # 0
  /\ sockets[socketRef].readyState = OPEN
  /\ Len(inbox) + Len(handled) < MaxFrames
  /\ inbox' = Append(inbox, [socket |-> socketRef, frame |-> frame])
  /\ UNCHANGED <<lifeVars, connVars, terminalReady, viewVars, ghostVars, other,
                 resizeListener, handled, calc, auth, renderer>>

\* the oldest queued message event is dispatched: onmessage runs if it is
\* still attached to the socket
Deliver ==
  /\ inbox # <<>>
  /\ inbox' = Tail(inbox)
  /\ LET f == Head(inbox)
     IN IF sockets[f.socket].handlers /\ sockets[f.socket].readyState = OPEN
        THEN /\ onmessage(f.socket, FrameCmd(f.frame), TextDecode(FrameData(f.frame)))
             /\ handled' = Append(handled, FrameCmd(f.frame))
        ELSE UNCHANGED <<lifeVars, connVars, terminalReady, viewVars, ghostVars, handled>>
  /\ UNCHANGED <<other, resizeListener, calc, auth, renderer>>

\* the first animation-frame callback queued by an OUTPUT frame
RafFirst ==
  /\ 1 \in raf
  /\ raf' = (raf \ {1}) \cup {2}
  /\ LET v == scrollToBottom(View, handlerHasNewContent, phase, terminal)
     IN SetView(v) /\ lfSince' = (IF v.isAtBottomRef THEN -1 ELSE lfSince)
  /\ UNCHANGED <<lifeVars, connVars, terminalReady, handlerHasNewContent,
                 lineFeedTimeout, parsing, btnArmed>>
  /\ UNCHANGED <<other, auxVars>>

\* the nested animation-frame callback: scroll again if still not at bottom
RafSecond ==
  /\ 2 \in raf
  /\ raf' = raf \ {2}
  /\ LET v == IF ~isTerminalAtBottom(View)
              THEN scrollToBottom(View, handlerHasNewContent, phase, terminal)
              ELSE View
     IN SetView(v) /\ lfSince' = (IF v.isAtBottomRef THEN -1 ELSE lfSince)
  /\ UNCHANGED <<lifeVars, connVars, terminalReady, handlerHasNewContent,
                 lineFeedTimeout, parsing, btnArmed>>
  /\ UNCHANGED <<other, auxVars>>

\* fitAddon.fit() gives the terminal a new geometry: terminal.onResize
Fit(g) ==
  /\ terminal = "live"
  /\ g # geom
  /\ SendBound
  /\ geom' = g
  /\ SetConn(onResize(Conn, g))
  /\ UNCHANGED <<phase, wsUrl, initPc, isMounted, terminal, docTitle, terminalReady,
                 isAtBottomRef, hasNewContent, newLineCount, handlerHasNewContent,
                 lineFeedTimeout, baseY, viewportY, raf, ghostVars>>
  /\ UNCHANGED <<other, auxVars>>

\* the window is resized: handleWindowResize, registered by
\* setupTerminalHandlers, calls fitAddon.fit(); on a disposed terminal fit()
\* finds no element to measure and changes nothing
WindowResize(g) ==
  /\ resizeListener
  /\ IF terminal = "live"
     THEN Fit(g)
     ELSE UNCHANGED vars

\* ------------------------------------------------------ the other tab
\* The second instance runs the same component code on its own refs and
\* state: the operators above applied to the records of the other instance.
OtherConn ==
  [effects |-> effects, sockets |-> sockets, socketRef |-> other.socketRef,
   isConnected |-> other.isConnected, connectionStatus |-> other.connectionStatus,
   parsing |-> other.parsing, curEffect |-> other.curEffect,
   disconnectedCalls |-> other.disconnectedCalls,
   connectedCalls |-> other.connectedCalls]

\* o is the other instance's record, c the connection state after the handlers
SetOther(c, o) ==
  /\ effects' = c.effects
  /\ sockets' = c.sockets
  /\ other' = [o EXCEPT !.socketRef = c.socketRef,
                        !.isConnected = c.isConnected,
                        !.connectionStatus = c.connectionStatus,
                        !.parsing = c.parsing,
                        !.curEffect = c.curEffect,
                        !.disconnectedCalls = c.disconnectedCalls,
                        !.connectedCalls = c.connectedCalls,
                        !.runs = IF Len(c.effects) > Len(effects)
                                 THEN @ \cup {Len(c.effects)} ELSE @]

OtherView ==
  [isAtBottomRef |-> other.isAtBottomRef, hasNewContent |-> other.hasNewContent,
   newLineCount |-> other.newLineCount, baseY |-> other.baseY,
   viewportY |-> other.viewportY]

WithView(o, v) ==
  [o EXCEPT !.isAtBottomRef = v.isAtBottomRef, !.hasNewContent = v.hasNewContent,
            !.newLineCount = v.newLineCount, !.baseY = v.baseY,
            !.viewportY = v.viewportY]

OtherMountEffects ==
  /\ other.phase = "rendered"
  /\ SetOther(ConnectEffect(OtherConn, other.wsUrl, other.terminal),
              [other EXCEPT !.phase = "mounted", !.initPc = "importing"])
  /\ UNCHANGED tabVars

OtherInitTerminalResume ==
  /\ other.initPc = "importing"
  /\ other' = [other EXCEPT !.initPc = "done", !.terminal = "live"]
  /\ UNCHANGED <<tabVars, effects, sockets>>

OtherChangeProps ==
  /\ other.phase = "mounted"
  /\ Len(sockets) < MaxTabSockets
  /\ LET c0 == IF other.curEffect # 0
               THEN ConnectCleanup(OtherConn, other.curEffect) ELSE OtherConn
     IN SetOther(ConnectEffect(c0, other.wsUrl, other.terminal), other)
  /\ UNCHANGED tabVars

OtherSocketOpen(s) ==
  /\ sockets[s].gen \in other.runs
  /\ sockets[s].readyState = CONNECTING
  /\ LET c0 == [OtherConn EXCEPT !.sockets[s].readyState = OPEN,
                                    !.sockets[s].opened = TRUE,
                                    !.sockets[s].openGeom = DefaultGeom]
     IN SetOther(IF sockets[s].handlers
                 THEN onopen(c0, s, DefaultGeom, other.terminal) ELSE c0, other)
  /\ UNCHANGED tabVars

\* the other tab's connection is lost (close code 1006)
OtherSocketClose(s) ==
  /\ sockets[s].gen \in other.runs
  /\ sockets[s].readyState # CLOSED
  /\ sockets[s].localClose = "none"
  /\ sockets[s].handlers => Len(sockets) < MaxTabSockets
  /\ LET c0 == [OtherConn EXCEPT !.sockets[s].readyState = CLOSED,
                                    !.sockets[s].code = 1006]
     IN SetOther(IF sockets[s].handlers
                 THEN onclose(c0, s, 1006, other.terminal) ELSE c0, other)
  /\ UNCHANGED tabVars

OtherReconnectTimeout(s) ==
  /\ sockets[s].gen \in other.runs
  /\ sockets[s].timer = "pending"
  /\ SetOther(reconnectCallback(OtherConn, s), other)
  /\ UNCHANGED tabVars

\* socket.onmessage of the other tab's socket s
OtherOnMessage(s, cmd, text) ==
  /\ sockets[s].gen \in other.runs
  /\ sockets[s].readyState = OPEN
  /\ sockets[s].handlers
  /\ IF cmd = "0"
     THEN /\ SetOther(TerminalWrite(OtherConn, other.terminal),
                      [other EXCEPT !.raf = IF other.isAtBottomRef THEN @ \cup {1} ELSE @])
          /\ UNCHANGED docTitle
     ELSE /\ docTitle' = IF cmd = "1" THEN text ELSE docTitle
          /\ UNCHANGED <<effects, sockets, other>>
  /\ UNCHANGED ownVars

OtherUserScroll(y) ==
  /\ other.terminal = "live"
  /\ y \in 0..other.baseY
  /\ y # other.viewportY
  /\ other' = WithView(other, onScroll([OtherView EXCEPT !.viewportY = y], FALSE, other.phase))
  /\ UNCHANGED <<tabVars, effects, sockets>>

OtherLineFeed(scrolls) ==
  /\ other.terminal = "live"
  /\ other.parsing
  /\ other.newLineCount < MaxTabLines
  /\ LET v == BufferLineFeed(OtherView, scrolls)
         w == IF scrolls THEN onScroll(v, FALSE, other.phase) ELSE v
     IN other' = [WithView(other, w) EXCEPT !.lineFeedTimeout = TRUE]
  /\ UNCHANGED <<tabVars, effects, sockets>>

OtherParseDone ==
  /\ other.parsing
  /\ other' = [other EXCEPT !.parsing = FALSE]
  /\ UNCHANGED <<tabVars, effects, sockets>>

OtherLineFeedTimeout ==
  /\ other.lineFeedTimeout
  /\ other' = [WithView(other, lineFeedCallback(OtherView, FALSE, other.phase, other.terminal))
                 EXCEPT !.lineFeedTimeout = FALSE]
  /\ UNCHANGED <<tabVars, effects, sockets>>

OtherRafFirst ==
  /\ 1 \in other.raf
  /\ other' = [WithView(other, scrollToBottom(OtherView, FALSE, other.phase, other.terminal))
                 EXCEPT !.raf = (@ \ {1}) \cup {2}]
  /\ UNCHANGED <<tabVars, effects, sockets>>

OtherRafSecond ==
  /\ 2 \in other.raf
  /\ other' = [WithView(other, IF ~isTerminalAtBottom(OtherView)
                               THEN scrollToBottom(OtherView, FALSE, other.phase, other.terminal)
                               ELSE OtherView)
                 EXCEPT !.raf = @ \ {2}]
  /\ UNCHANGED <<tabVars, effects, sockets>>

\* ---------------------------------------------------------------- spec
\* The transport: lifecycle, network events and the reconnect timer.
Next ==
  \/ MountEffects
  \/ InitTerminalResume
  \/ InitTerminalFail
  \/ \E u \in Urls : ChangeProps(u)
  \/ Unmount
  \/ \E s \in 1..Len(sockets) : SocketOpen(s)
  \/ \E s \in 1..Len(sockets) : LateOpen(s)
  \/ \E s \in 1..Len(sockets), code \in CloseCodes : SocketClose(s, code)
  \/ \E s \in 1..Len(sockets) : ReconnectTimeout(s)

Spec == Init /\ [][Next]_vars

\* Timers and events of the browser's event loop are eventually dispatched.
FairSpec ==
  /\ Spec
  /\ WF_vars(MountEffects)
  /\ WF_vars(InitTerminalResume \/ InitTerminalFail)
  /\ WF_vars(\E s \in 1..Len(sockets) : ReconnectTimeout(s))

\* The frames sent: valid endpoints, connections that fail or are lost, and
\* the handlers that send (typing, binary input, resize).
SendNext ==
  \/ MountEffects
  \/ InitTerminalResume
  \/ \E u \in {UrlA, UrlB} : Len(sockets) < MaxSendSockets /\ ChangeProps(u)
  \/ Unmount
  \/ \E s \in 1..Len(sockets) : SocketOpen(s)
  \/ \E s \in 1..Len(sockets) : Len(sockets) < MaxSendSockets /\ SocketClose(s, 1006)
  \/ \E s \in 1..Len(sockets) : ReconnectTimeout(s)
  \/ OnData
  \/ OnBinary
  \/ \E g \in Geoms : Fit(g)
  \/ \E g \in Geoms : WindowResize(g)

SendSpec == Init /\ [][SendNext]_vars

\* The viewport tracker: one endpoint whose server keeps the socket open and
\* sends OUTPUT frames, the user's scrolling and typing, and the timers.
ViewNext ==
  \/ MountEffects
  \/ InitTerminalResume
  \/ ChangeProps(UrlA)
  \/ Unmount
  \/ \E s \in 1..Len(sockets) : SocketOpen(s)
  \/ \E s \in 1..Len(sockets), text \in Payloads : OnMessage(s, "0", text)
  \/ OnData
  \/ OnBinary
  \/ \E y \in 0..MaxBase : UserScroll(y)
  \/ \E scrolls \in BOOLEAN : LineFeed(scrolls)
  \/ ParseDone
  \/ LineFeedTimeout
  \/ ScrollToBottomClick
  \/ RafFirst
  \/ RafSecond

ViewInit == Init /\ wsUrl = UrlA

ViewSpec == ViewInit /\ [][ViewNext]_vars

\* Two tabs: this instance's lifecycle and socket, next to another instance
\* that connects, loses and regains its connection, receives output and is
\* scrolled by its user. Each instance is given its endpoint once.
TabsNext ==
  \/ MountEffects
  \/ InitTerminalResume
  \/ (curEffect = 0 /\ Len(sockets) < MaxTabSockets /\ ChangeProps(UrlA))
  \/ Unmount
  \/ \E s \in 1..Len(sockets) : SocketOpen(s)
  \/ \E s \in 1..Len(sockets), code \in CloseCodes :
       Len(sockets) < MaxTabSockets /\ SocketClose(s, code)
  \/ OtherMountEffects
  \/ OtherInitTerminalResume
  \/ (other.curEffect = 0 /\ OtherChangeProps)
  \/ \E s \in 1..Len(sockets) : OtherSocketOpen(s)
  \/ \E s \in 1..Len(sockets) : OtherSocketClose(s)
  \/ \E s \in 1..Len(sockets) : OtherReconnectTimeout(s)
  \/ \E s \in 1..Len(sockets), text \in Payloads : OtherOnMessage(s, "0", text)
  \/ \E y \in 0..MaxBase : OtherUserScroll(y)
  \/ \E scrolls \in BOOLEAN : OtherLineFeed(scrolls)
  \/ OtherParseDone
  \/ OtherLineFeedTimeout
  \/ OtherRafFirst
  \/ OtherRafSecond

TabsSpec == ViewInit /\ [][TabsNext]_vars

\* the animation frame queued by initTerminal calls applyRenderer(rendererType)
\* unless the component has unmounted
RendererFrame ==
  /\ initPc = "done"
  /\ renderer.pc = "idle"
  /\ renderer' = IF ~isMounted THEN [renderer EXCEPT !.pc = "skipped"]
                 ELSE applyRenderer(renderer, renderer.requested, terminal)
  /\ UNCHANGED <<lifeVars, connVars, terminalReady, viewVars, ghostVars, other,
                 resizeListener, inbox, handled, calc, auth>>

\* the dynamic import of @xterm/addon-webgl settles
WebglImportSettled ==
  /\ renderer.pc = "webgl"
  /\ renderer' = webglCase(renderer, terminal)
  /\ UNCHANGED <<lifeVars, connVars, terminalReady, viewVars, ghostVars, other,
                 resizeListener, inbox, handled, calc, auth>>

\* the dynamic import of @xterm/addon-canvas settles
CanvasImportSettled ==
  /\ renderer.pc = "canvas"
  /\ renderer' = canvasCase(renderer, terminal)
  /\ UNCHANGED <<lifeVars, connVars, terminalReady, viewVars, ghostVars, other,
                 resizeListener, inbox, handled, calc, auth>>

\* The renderer chain of a terminal that mounts and may unmount at any time.
RendererNext ==
  \/ MountEffects
  \/ InitTerminalResume
  \/ InitTerminalFail
  \/ Unmount
  \/ RendererFrame
  \/ WebglImportSettled
  \/ CanvasImportSettled

RendererSpec == RendererInit /\ [][RendererNext]_vars

\* useSealos reports isInitialized
SealosInitialized ==
  /\ ~auth.isInitialized
  /\ auth' = SealosAutoAuthEffect([auth EXCEPT !.isInitialized = TRUE])
  /\ UNCHANGED <<lifeVars, connVars, terminalReady, viewVars, ghostVars, other,
                 resizeListener, inbox, handled, calc, renderer>>

\* useSealos reports that it is no longer loading
SealosLoaded ==
  /\ auth.isLoading
  /\ auth' = SealosAutoAuthEffect([auth EXCEPT !.isLoading = FALSE])
  /\ UNCHANGED <<lifeVars, connVars, terminalReady, viewVars, ghostVars, other,
                 resizeListener, inbox, handled, calc, renderer>>

\* useSession reports a new status: the session is being fetched, it is
\* resolved, the user is signed in, or the session ends
SessionStatus(st) ==
  /\ st # auth.status
  /\ auth' = SealosAutoAuthEffect([auth EXCEPT !.status = st])
  /\ UNCHANGED <<lifeVars, connVars, terminalReady, viewVars, ghostVars, other,
                 resizeListener, inbox, handled, calc, renderer>>

\* a call of authenticateWithSealos settles
AuthSettled(outcome) ==
  /\ auth.inflight > 0
  /\ auth' = authSettled(auth, outcome)
  /\ UNCHANGED <<lifeVars, connVars, terminalReady, viewVars, ghostVars, other,
                 resizeListener, inbox, handled, calc, renderer>>

\* the retry delay (RETRY_DELAY_MS) elapses
RetryTimeout ==
  /\ auth.timer = "pending"
  /\ auth' = retryCallback(auth)
  /\ UNCHANGED <<lifeVars, connVars, terminalReady, viewVars, ghostVars, other,
                 resizeListener, inbox, handled, calc, renderer>>

AuthNext ==
  \/ SealosInitialized
  \/ SealosLoaded
  \/ \E st \in {"loading", "authenticated", "unauthenticated"} : SessionStatus(st)
  \/ \E outcome \in Outcomes : AuthSettled(outcome)
  \/ RetryTimeout

AuthSpec == AuthInit /\ [][AuthNext]_vars

\* Calls settle and timers expire.
AuthFairSpec ==
  /\ AuthSpec
  /\ WF_vars(SealosInitialized)
  /\ WF_vars(SealosLoaded)
  /\ WF_vars(\E outcome \in Outcomes : AuthSettled(outcome))
  /\ WF_vars(RetryTimeout)

\* parseUrl(wsUrl) of the connect effect applied to the endpoint text
ApplyParseUrl ==
  /\ calc.kind = "parseUrl"
  /\ calc.pc = "input"
  /\ calc' = [calc EXCEPT !.pc = "done", !.output = parseUrl(URL(calc.input))]
  /\ UNCHANGED <<lifeVars, connVars, terminalReady, viewVars, ghostVars, other,
                 resizeListener, inbox, handled, auth, renderer>>

\* sendData(data) builds the frame for the binary input
ApplyEncode ==
  /\ calc.kind = "sendData"
  /\ calc.pc = "input"
  /\ calc' = [calc EXCEPT !.pc = "sent", !.output = [frame |-> encodeInput(calc.input)]]
  /\ UNCHANGED <<lifeVars, connVars, terminalReady, viewVars, ghostVars, other,
                 resizeListener, inbox, handled, auth, renderer>>

\* the receiver splits the frame as socket.onmessage does: first byte, rest
ApplyDecode ==
  /\ calc.kind = "sendData"
  /\ calc.pc = "sent"
  /\ calc' = [calc EXCEPT !.pc = "done",
                          !.output = [frame |-> calc.output.frame,
                                      cmd |-> FrameCmd(calc.output.frame),
                                      data |-> FrameData(calc.output.frame)]]
  /\ UNCHANGED <<lifeVars, connVars, terminalReady, viewVars, ghostVars, other,
                 resizeListener, inbox, handled, auth, renderer>>

PureNext ==
  \/ ApplyParseUrl
  \/ ApplyEncode
  \/ ApplyDecode

PureSpec == PureInit /\ [][PureNext]_vars

\* Inbound frames: one endpoint, a server that sends well-formed and malformed
\* frames on the open socket, and the terminal's parser and animation frames.
FrameNext ==
  \/ MountEffects
  \/ InitTerminalResume
  \/ (curEffect = 0 /\ ChangeProps(UrlA))
  \/ Unmount
  \/ \E s \in 1..Len(sockets) : SocketOpen(s)
  \/ \E frame \in InboundFrames : ServerSend(frame)
  \/ Deliver
  \/ ParseDone
  \/ RafFirst
  \/ RafSecond

FrameSpec == ViewInit /\ [][FrameNext]_vars

\* title and preferences frames, with an ASCII payload and with a high byte
TitleFrames ==
  {<<SET_WINDOW_TITLE, 77>>, <<SET_WINDOW_TITLE, 255>>, <<SET_PREFERENCES, 77>>}

\* Two tabs of one page whose servers send title and preferences frames.
TitleNext ==
  \/ MountEffects
  \/ InitTerminalResume
  \/ (curEffect = 0 /\ ChangeProps(UrlA))
  \/ Unmount
  \/ \E s \in 1..Len(sockets) : SocketOpen(s)
  \/ \E s \in 1..Len(sockets), code \in CloseCodes :
       Len(sockets) < MaxTabSockets /\ SocketClose(s, code)
  \/ \E s \in 1..Len(sockets), frame \in TitleFrames :
       OnMessage(s, FrameCmd(frame), TextDecode(FrameData(frame)))
  \/ OtherMountEffects
  \/ OtherInitTerminalResume
  \/ (other.curEffect = 0 /\ OtherChangeProps)
  \/ \E s \in 1..Len(sockets) : OtherSocketOpen(s)
  \/ \E s \in 1..Len(sockets), frame \in TitleFrames :
       OtherOnMessage(s, FrameCmd(frame), TextDecode(FrameData(frame)))

TitleSpec == ViewInit /\ [][TitleNext]_vars


\* -------------------------------------------------------------- properties
SocketsOf(g) == {s \in DOMAIN sockets : sockets[s].gen = g}
PendingReconnects == {s \in DOMAIN sockets : sockets[s].timer = "pending"}

\* C1: at most one reconnect timer is pending; every close handled as
\* unexpected has scheduled one timer; and for every run of the connect effect
\* the number of connect attempts is 1 plus the number of unexpected closes
\* whose timer has fired.
C1_OneReconnectPerClose ==
  /\ Cardinality(PendingReconnects) <= 1
  /\ \A s \in DOMAIN sockets :
       (sockets[s].notice # "none" /\ sockets[s].code # NormalClosure)
         <=> sockets[s].timer # "none"
  /\ \A g \in DOMAIN effects :
       Cardinality(SocketsOf(g)) =
         1 + Cardinality({s \in SocketsOf(g) : sockets[s].timer = "fired"})

\* C1 witness: a reconnected socket opened, closed unexpectedly again, and its
\* timer fired too (three attempts after two unexpected closes)
C1_Witness ==
  \E s \in DOMAIN sockets :
    /\ s > 1
    /\ sockets[s - 1].gen = sockets[s].gen
    /\ sockets[s - 1].timer = "fired"
    /\ sockets[s].opened
    /\ sockets[s].timer = "fired"

\* C2: once the cleanup of a connect effect run has been executed (the run is
\* no longer the current one), that run never makes another connect attempt.
C2_NoConnectAfterTeardown ==
  [][\A g \in DOMAIN effects :
       g # curEffect => Cardinality(SocketsOf(g))' = Cardinality(SocketsOf(g))]_vars

\* C2 witness: a socket torn down while OPEN or CONNECTING received its close
\* event afterwards, and a reconnect timer was cancelled by a teardown
C2_Witness ==
  /\ \E s \in DOMAIN sockets :
       ~sockets[s].handlers /\ sockets[s].localClose = "1000" /\ sockets[s].readyState = CLOSED
  /\ \E s \in DOMAIN sockets : sockets[s].timer = "cleared"


\* C3: once the terminal is initialised and the endpoint URL carries a token,
\* a connection attempt is eventually made (unless the component is unmounted
\* or the endpoint is replaced by one without a token first).
C3_EventuallyConnects ==
  (phase = "mounted" /\ initPc = "done" /\ parseUrl(wsUrl) # Null)
    ~> (sockets # <<>> \/ phase = "unmounted" \/ parseUrl(wsUrl) = Null)

\* C4: whenever the latest attempt of the current connect effect run has
\* ended in a close with a code other than 1000, a further connection attempt
\* is eventually made, however many attempts have failed before, unless the
\* run is torn down first.
C4_ReconnectNeverGivesUp ==
  \A n \in 1..(MaxSockets + 1), g \in 1..(MaxEffects + 1) :
    (/\ curEffect = g
     /\ Len(sockets) = n
     /\ sockets[n].gen = g
     /\ sockets[n].readyState = CLOSED
     /\ sockets[n].code # NormalClosure)
      ~> (Len(sockets) > n \/ curEffect # g)

\* C4 witness: three attempts of one effect run, none of which ever opened
C4_Witness ==
  /\ Len(sockets) >= 3
  /\ \A s \in 1..3 : sockets[s].gen = sockets[1].gen /\ (s < 3 => ~sockets[s].opened)
  /\ sockets[3].readyState = CONNECTING

\* C5: every socket that opened has sent the handshake as its first frame,
\* with the token of the endpoint URL of its effect run and the terminal's
\* geometry at the moment of opening; every other frame comes after it.
C5_HandshakeFirst ==
  \A s \in DOMAIN sockets :
    /\ sockets[s].opened =>
         /\ sockets[s].sent # <<>>
         /\ sockets[s].sent[1] =
              Handshake(SearchGet(effects[sockets[s].gen].url.search, "arg"), sockets[s].openGeom)
    /\ ~sockets[s].opened => sockets[s].sent = <<>>
    /\ \A i \in 2..Len(sockets[s].sent) : sockets[s].sent[i].cmd \in {"0", "1"}

\* C5 witness: a socket opened by a reconnect sent the handshake with the
\* resized geometry and then an INPUT frame
C5_Witness ==
  \E s \in DOMAIN sockets :
    /\ s > 1
    /\ sockets[s - 1].timer = "fired"
    /\ Len(sockets[s].sent) = 2
    /\ sockets[s].sent[1] = Handshake("TOK", <<120, 40>>)
    /\ sockets[s].sent[2].cmd = "0"


\* C6: after the component is unmounted (the terminal disposed), neither the
\* reconnect timer callback nor the line-feed debounce callback runs.
C6_NoTimerAfterDispose ==
  [][phase = "unmounted" =>
       ~(LineFeedTimeout \/ \E s \in 1..Len(sockets) : ReconnectTimeout(s))]_vars

\* C7: while mounted and scrolled away from the bottom, n line feeds with no
\* user action in between, starting from a zero counter, give a counter of n
\* once no debounce timer is pending, with the indicator raised if n > 0 and
\* isAtBottom still false.
C7_OnePerLineFeed ==
  (phase = "mounted" /\ lfSince >= 0 /\ ~lineFeedTimeout)
    => (newLineCount = lfSince /\ (lfSince > 0 => hasNewContent) /\ ~isAtBottomRef)

\* C8: every keystroke or binary input leaves the viewport state at
\* isAtBottom = true, hasNewContent = false, pendingNewLines = 0.
C8_InputResetsViewport ==
  [][(OnData \/ OnBinary) =>
       (isAtBottomRef' /\ ~hasNewContent' /\ newLineCount' = 0)]_vars

\* C9: a user scroll that brings the viewport from away back to the bottom
\* (within the tolerance) resets isAtBottom to true and the counter to 0 and
\* clears the indicator.
C9_ScrollToBottomResets ==
  [][((\E y \in 0..MaxBase : UserScroll(y)) /\ ~isAtBottomRef /\ isTerminalAtBottom(View)')
       => (isAtBottomRef' /\ newLineCount' = 0 /\ ~hasNewContent')]_vars

AtTrueBottom ==
  isAtBottomRef /\ viewportY = baseY /\ newLineCount = 0 /\ ~hasNewContent

LiveAttached ==
  {s \in DOMAIN sockets : sockets[s].handlers /\ sockets[s].readyState # CLOSED}

\* C13: at most one socket with attached handlers is live (not CLOSED) at any
\* time, and it is the one socketRef holds: an endpoint change detaches and
\* closes the prior socket before the new one is created, and a reconnect
\* creates its socket only after the previous one has closed.
C13_OneLiveTransport ==
  /\ Cardinality(LiveAttached) <= 1
  /\ LiveAttached \subseteq {socketRef}

\* C13 witness: the first socket was torn down by an endpoint change, the
\* second closed unexpectedly and its reconnect timer fired, the third is open
C13_Witness ==
  /\ Len(sockets) = 3
  /\ ~sockets[1].handlers
  /\ sockets[2].timer = "fired"
  /\ sockets[3].readyState = OPEN /\ sockets[3].handlers

\* socketRef.current is null or not OPEN
NotOpen == socketRef = 0 \/ sockets[socketRef].readyState # OPEN

\* C14: an INPUT or RESIZE frame is sent only on socketRef's socket while it
\* is OPEN; typing, binary input or a resize while there is no socket or it
\* is not OPEN (CONNECTING, closed, waiting for the reconnect timer) sends
\* nothing and leaves the sockets, the effect closures and the connection
\* state unchanged.
C14_SendOnlyWhileOpen ==
  [][/\ \A s \in DOMAIN sockets :
          (/\ Len(sockets'[s].sent) > Len(sockets[s].sent)
           /\ sockets'[s].sent[Len(sockets'[s].sent)].cmd \in {"0", "1"})
            => (s = socketRef /\ sockets[s].readyState = OPEN)
     /\ ((OnData \/ OnBinary \/ \E g \in Geoms : Fit(g)) /\ NotOpen)
          => (connVars' = connVars /\ parsing' = parsing)]_vars

\* C14 witness: a socket opened with the default geometry and was lost; the
\* terminal was resized while the reconnect timer is pending, and the only
\* frame the socket ever carried is its handshake
C14_Witness ==
  \E s \in DOMAIN sockets :
    /\ sockets[s].opened /\ sockets[s].openGeom = DefaultGeom
    /\ sockets[s].readyState = CLOSED /\ sockets[s].timer = "pending"
    /\ socketRef = 0
    /\ geom # DefaultGeom
    /\ Len(sockets[s].sent) = 1

\* C15: once the component is mounted and initialised with an endpoint URL
\* that cannot be parsed or carries no token, onDisconnected has been invoked
\* exactly once for it, and there is no socket and no reconnect timer.
C15_ConfigFailureOnce ==
  (phase = "mounted" /\ initPc = "done" /\ wsUrl.text # "empty" /\ parseUrl(wsUrl) = Null)
    => /\ disconnectedCalls = 1
       /\ socketRef = 0 /\ curEffect = 0
       /\ LiveAttached = {}
       /\ PendingReconnects = {}

\* C16: when the connect effect runs for an endpoint URL without a token (or
\* one that cannot be parsed), the display's connection status becomes
\* "error".
C16_ConfigFailureShowsError ==
  [][((\E u \in Urls : ChangeProps(u))
        /\ terminal = "live" /\ wsUrl'.text # "empty" /\ parseUrl(wsUrl') = Null)
       => connectionStatus' = "error"]_vars

\* C17: when a socket whose handlers are attached is closed by the remote
\* side (no local close() call) while the component is mounted, whatever the
\* close code, the "Connection lost" notice is written and a reconnect timer
\* is scheduled.
C17_RemoteCloseReconnects ==
  [][\A s \in DOMAIN sockets, code \in RemoteCloseCodes :
       (/\ SocketClose(s, code)
        /\ sockets[s].localClose = "none"
        /\ sockets[s].handlers
        /\ phase = "mounted")
         => (sockets'[s].timer = "pending" /\ sockets'[s].notice = "lost")]_vars

\* C18: every socket closed by a local close() call (teardown by endpoint
\* change or by unmount) was closed with the normal-closure code 1000.
C18_LocalCloseNormal ==
  \A s \in DOMAIN sockets :
    sockets[s].localClose # "none" => sockets[s].localClose = "1000"

\* C19: while the terminal exists, every closed socket has written exactly
\* one notice: "Connection lost" exactly when a reconnect timer was scheduled
\* for its close, and "Connection closed" with no timer when the close was
\* started locally.
C19_OneNoticePerClose ==
  \A s \in DOMAIN sockets :
    (terminal = "live" /\ sockets[s].readyState = CLOSED)
      => /\ sockets[s].notice # "none"
         /\ sockets[s].notice = "lost" <=> sockets[s].timer # "none"
         /\ sockets[s].localClose # "none" =>
              (sockets[s].notice = "closed" /\ sockets[s].timer = "none")

\* the connect effect run that created socket s has been torn down
TornDown(s) == effects[sockets[s].gen].isCleaningUp

\* C20: when the open event of a socket arrives after the teardown of its
\* connect effect run, nothing happens: isConnected and the display's
\* connection status keep their values (onConnected is not invoked) and the
\* socket has sent no frame.
C20_LateOpenSuppressed ==
  [][\A s \in DOMAIN sockets :
       ((SocketOpen(s) \/ LateOpen(s)) /\ TornDown(s))
         => /\ isConnected' = isConnected
            /\ connectionStatus' = connectionStatus
            /\ sockets'[s].sent = <<>>]_vars

\* C20 witness: the endpoint changed while the first attempt was in flight,
\* the first attempt's open event arrived afterwards, and the component is
\* not connected: the second attempt is still in flight
C20_Witness ==
  /\ phase = "mounted"
  /\ Len(sockets) >= 2
  /\ sockets[1].lateOpen /\ sockets[1].localClose = "1000" /\ sockets[1].sent = <<>>
  /\ sockets[2].readyState = CONNECTING
  /\ ~isConnected /\ connectionStatus = "connecting"

\* the sockets and effect closures of the other instance
OtherSockets == {s \in DOMAIN sockets : sockets[s].gen \in other.runs}

\* C12: unmounting this instance changes nothing of the other instance: its
\* refs and state (socketRef, connection status, isAtBottom, hasNewContent,
\* newLineCount, terminal and buffer, pending timers and animation frames),
\* its sockets (ready state, handlers, reconnect timer) and its effect
\* closures are the same after the unmount as before.
C12_UnmountLeavesOtherTab ==
  [][Unmount =>
       /\ other' = other
       /\ \A s \in OtherSockets : sockets'[s] = sockets[s]
       /\ \A g \in other.runs : effects'[g] = effects[g]]_vars

\* C12 witness: this instance was unmounted while its socket was open and
\* the socket has closed; the other instance's socket is open and its
\* viewport is scrolled away with one new line counted
C12_Witness ==
  /\ phase = "unmounted"
  /\ \E s \in DOMAIN sockets \ OtherSockets :
       sockets[s].opened /\ sockets[s].localClose # "none" /\ sockets[s].readyState = CLOSED
  /\ other.socketRef # 0 /\ sockets[other.socketRef].readyState = OPEN
  /\ other.isConnected /\ other.connectionStatus = "connected"
  /\ ~other.isAtBottomRef /\ other.hasNewContent /\ other.newLineCount = 1

\* C30: once the component is unmounted the window 'resize' listener of
\* setupTerminalHandlers is no longer registered, and no animation-frame
\* callback queued by an earlier OUTPUT frame runs terminal.scrollToBottom().
C30_NoCallbackAfterDispose ==
  [][/\ (phase' = "unmounted" => ~resizeListener')
     /\ (phase = "unmounted" => ~RafFirst)]_vars

\* the frames of a sequence of sent frames that carry a geometry
GeometryFrames(sent) == SelectSeq(sent, LAMBDA f : f.cmd \in {"handshake", "1"})

\* the geometry most recently sent to the server in a sequence of frames
LastGeometry(sent) ==
  LET fs == GeometryFrames(sent)
  IN <<fs[Len(fs)].columns, fs[Len(fs)].rows>>

\* C24: on every OPEN socket whose handshake has been sent, the geometry most
\* recently sent (by the handshake or a RESIZE frame) is the terminal's
\* current cols/rows, also after resizes dropped while no socket was OPEN.
C24_GeometryInSync ==
  \A s \in DOMAIN sockets :
    (sockets[s].readyState = OPEN /\ GeometryFrames(sockets[s].sent) # <<>>)
      => LastGeometry(sockets[s].sent) = geom

\* C24 witness: the first socket carried only a handshake with the default
\* geometry and was lost; the terminal was resized while no socket was OPEN,
\* and the reconnected socket's handshake carries the new geometry
C24_Witness ==
  /\ Len(sockets) >= 2
  /\ sockets[1].readyState = CLOSED
  /\ Len(GeometryFrames(sockets[1].sent)) = 1
  /\ LastGeometry(sockets[1].sent) = DefaultGeom
  /\ sockets[2].readyState = OPEN
  /\ Len(sockets[2].sent) = 1
  /\ sockets[2].sent[1].cmd = "handshake"
  /\ geom # DefaultGeom
  /\ LastGeometry(sockets[2].sent) = geom

\* the open event of socket s is delivered in this step
OpenEvent(s) ==
  \/ sockets[s].readyState = CONNECTING /\ sockets'[s].readyState = OPEN
  \/ ~sockets[s].lateOpen /\ sockets'[s].lateOpen

\* the close event of socket s is delivered in this step
CloseEvent(s) == sockets[s].readyState # CLOSED /\ sockets'[s].readyState = CLOSED

\* the connect effect starts in this step (it may report a bad endpoint)
EffectStart == MountEffects \/ \E u \in Urls : ChangeProps(u)

\* C23: status callbacks are delivered at most once per transition. onReady
\* (seen as terminalReady) is called once, when initTerminal completes while
\* mounted, and never when the component unmounted during initialisation;
\* onConnected is called exactly once per open event of an attached socket;
\* onDisconnected at most once per close event of an attached socket; and a
\* socket that was torn down, or an unmounted component, makes no call.
C23_CallbacksOncePerTransition ==
  [][/\ (terminalReady' # terminalReady)
          => (initPc = "importing" /\ initPc' = "done" /\ isMounted /\ terminalReady')
     /\ (initPc \in {"done", "aborted"} => initPc' = initPc)
     /\ (initPc' = "aborted" => ~terminalReady')
     /\ \A s \in DOMAIN sockets :
          (OpenEvent(s) /\ sockets[s].handlers) => connectedCalls' = connectedCalls + 1
     /\ (connectedCalls' # connectedCalls)
          => /\ connectedCalls' = connectedCalls + 1
             /\ \E s \in DOMAIN sockets : OpenEvent(s) /\ sockets[s].handlers
     /\ (disconnectedCalls' # disconnectedCalls /\ ~EffectStart)
          => /\ disconnectedCalls' = disconnectedCalls + 1
             /\ \E s \in DOMAIN sockets : CloseEvent(s) /\ sockets[s].handlers
     /\ (\E s \in DOMAIN sockets : (OpenEvent(s) \/ CloseEvent(s)) /\ ~sockets[s].handlers)
          => (connectedCalls' = connectedCalls /\ disconnectedCalls' = disconnectedCalls)
     /\ (phase = "unmounted")
          => /\ connectedCalls' = connectedCalls
             /\ disconnectedCalls' = disconnectedCalls
             /\ terminalReady' = terminalReady]_vars

\* C23 witness: the terminal is ready, two sockets have opened with one call
\* of onConnected each, the first was lost with one call of onDisconnected,
\* and a third socket, torn down by a change of endpoint, closed without one
C23_Witness ==
  /\ terminalReady
  /\ connectedCalls = 2
  /\ Len(sockets) = 3
  /\ sockets[1].code = 1006 /\ sockets[1].opened
  /\ sockets[2].readyState = CLOSED /\ ~sockets[2].handlers /\ sockets[2].opened
  /\ disconnectedCalls = 0

\* the command characters socket.onmessage knows
KnownCommands == {"0", "1", "2"}

\* C22: an empty inbound frame, or one whose first byte is no known command,
\* is dropped: the sockets (ready state, reconnect timer), the connection
\* state, the terminal, the viewport state and the title are unchanged; and
\* message events are dispatched oldest first, each handled by its command.
C22_MalformedFrameDropped ==
  [][Len(inbox') < Len(inbox) =>
       LET f == Head(inbox)
           cmd == FrameCmd(f.frame)
           attached == sockets[f.socket].handlers /\ sockets[f.socket].readyState = OPEN
       IN /\ inbox' = Tail(inbox)
          /\ attached => handled' = Append(handled, cmd)
          /\ (cmd \notin KnownCommands)
               => /\ connVars' = connVars
                  /\ viewVars' = viewVars
                  /\ lifeVars' = lifeVars
          /\ (attached /\ cmd = "1") => docTitle' = TextDecode(FrameData(f.frame))
          /\ (attached /\ cmd = "0" /\ terminal = "live") => parsing']_vars

\* C22 witness: an empty frame, then a frame with an unknown first byte, then
\* a title frame were dispatched in that order; the title is set, the socket
\* is still OPEN and no reconnect timer is pending
C22_Witness ==
  /\ handled = <<"NUL", "?", "1">>
  /\ docTitle = <<77>>
  /\ socketRef # 0
  /\ sockets[socketRef].readyState = OPEN
  /\ \A s \in DOMAIN sockets : sockets[s].timer # "pending"

\* C21: a SET_WINDOW_TITLE frame gives its decoded text to the instance that
\* received it and writes nothing the tabs share: a title frame received by
\* the other tab leaves this tab's title as it was; a SET_PREFERENCES frame
\* changes no state.
C21_TitlePerInstance ==
  [][\A s \in DOMAIN sockets, frame \in TitleFrames :
       LET cmd == FrameCmd(frame)
           text == TextDecode(FrameData(frame))
       IN /\ (OnMessage(s, cmd, text) /\ cmd = "1") => docTitle' = text
          /\ (OnMessage(s, cmd, text) /\ cmd = "2") => vars' = vars
          /\ OtherOnMessage(s, cmd, text) => docTitle' = docTitle]_vars

\* the wire URL the rule gives for an endpoint text t: scheme https to wss
\* and http to ws, one trailing slash stripped from the path, /ws appended,
\* the original query string appended unchanged
DerivedByRule(t) ==
  LET marks == {i \in 4..Len(t) : t[i] = "?"}
      q == IF marks = {} THEN Len(t) + 1 ELSE CHOOSE i \in marks : \A j \in marks : i <= j
      path == SubSeq(t, 4, q - 1)
      stripped == IF path # <<>> /\ path[Len(path)] = "/"
                  THEN SubSeq(path, 1, Len(path) - 1) ELSE path
  IN <<IF t[1] = "https:" THEN "wss:" ELSE "ws:", "//", t[3]>>
       \o stripped \o <<"/ws">> \o SubSeq(t, q, Len(t))

\* C26: for every endpoint text, a wire URL that parseUrl derives is the one
\* the rule gives (https to wss, http to ws, one trailing slash stripped,
\* /ws appended, the query string appended unchanged) and contains the token
\* parameter; https://host/path/?arg=TOK gives wss://host/path/ws?arg=TOK and
\* http://host?arg=TOK gives ws://host/ws?arg=TOK.
C26_WireUrlDerivation ==
  (calc.kind = "parseUrl" /\ calc.pc = "done") =>
    /\ (calc.output # Null) =>
         /\ calc.output.wsFullUrl = DerivedByRule(calc.input)
         /\ calc.output.token # ""
         /\ \E i \in 1..(Len(calc.output.wsFullUrl) - 2) :
              /\ calc.output.wsFullUrl[i] = "arg"
              /\ calc.output.wsFullUrl[i + 1] = "="
              /\ calc.output.wsFullUrl[i + 2] = calc.output.token
    /\ (calc.input = <<"https:", "//", "host", "/", "path", "/", "?", "arg", "=", "TOK">>)
         => calc.output.wsFullUrl
              = <<"wss:", "//", "host", "/", "path", "/ws", "?", "arg", "=", "TOK">>
    /\ (calc.input = <<"http:", "//", "host", "?", "arg", "=", "TOK">>)
         => calc.output.wsFullUrl = <<"ws:", "//", "host", "/ws", "?", "arg", "=", "TOK">>

\* C26 witness: parseUrl has derived ws://host/ws?arg=TOK from the endpoint
\* http://host?arg=TOK, which has no path
C26_Witness ==
  /\ calc.kind = "parseUrl"
  /\ calc.pc = "done"
  /\ calc.input = <<"http:", "//", "host", "?", "arg", "=", "TOK">>
  /\ calc.output.wsFullUrl = <<"ws:", "//", "host", "/ws", "?", "arg", "=", "TOK">>

\* C27: for every byte sequence b, the frame sendData builds for binary input
\* is the INPUT command byte followed by b unchanged, and splitting it into
\* first byte and remainder gives the command INPUT and the payload b.
C27_InputFramingRoundTrip ==
  /\ (calc.kind = "sendData" /\ calc.pc \in {"sent", "done"})
       => calc.output.frame = <<INPUT>> \o calc.input
  /\ (calc.kind = "sendData" /\ calc.pc = "done")
       => (calc.output.cmd = "0" /\ calc.output.data = calc.input)

\* C27 witness: the round trip of the empty sequence, and of a sequence that
\* starts with a high byte and contains the command byte itself
C27_Witness ==
  /\ calc.kind = "sendData"
  /\ calc.pc = "done"
  /\ calc.input \in {<<>>, <<255, 48, 0>>}
  /\ calc.output.data = calc.input

\* the place of a renderer in the fallback chain
Rank(t) == CASE t = "webgl" -> 1 [] t = "canvas" -> 2 [] OTHER -> 3

\* C25: for every combination of failures of the WebGL and canvas back-ends
\* applyRenderer raises nothing; the renderers are tried in the order webgl,
\* canvas, dom starting from the requested one, each at most once; and when
\* it has ended at most one accelerated addon is active, which is the last
\* renderer tried (none for dom).
C25_RendererFallback ==
  LET r == renderer IN
  /\ ~r.raised
  /\ \A i, j \in 1..Len(r.attempts) : i < j => Rank(r.attempts[i]) < Rank(r.attempts[j])
  /\ (r.attempts # <<>>) => r.attempts[1] = r.requested
  /\ (r.pc = "done") =>
       /\ r.attempts # <<>>
       /\ ~(r.webglActive /\ r.canvasActive)
       /\ r.webglActive => r.attempts[Len(r.attempts)] = "webgl"
       /\ r.canvasActive => r.attempts[Len(r.attempts)] = "canvas"
       /\ (phase = "mounted" /\ ~r.webglActive /\ ~r.canvasActive)
            => r.attempts[Len(r.attempts)] = "dom"

\* C25 witness: WebGL was requested, its addon failed to load, the canvas
\* import failed too, and applyRenderer ended on the DOM renderer after
\* trying webgl, canvas and dom once each
C25_Witness ==
  /\ renderer.pc = "done"
  /\ renderer.webglFails = "load"
  /\ renderer.canvasFails = "import"
  /\ renderer.disposeThrows
  /\ renderer.attempts = <<"webgl", "canvas", "dom">>
  /\ ~renderer.webglActive /\ ~renderer.canvasActive

\* C28: SealosAutoAuth makes at most MAX_RETRY_ATTEMPTS calls of
\* authenticateWithSealos per page load, never has two in flight, starts a
\* retry only after the previous call failed and the retry delay elapsed,
\* and starts no call when the session status is 'authenticated'.
C28_BoundedAuthAttempts ==
  [][/\ auth'.calls <= MAX_RETRY_ATTEMPTS
     /\ auth'.inflight <= 1
     /\ (auth'.calls # auth.calls) =>
          /\ auth'.calls = auth.calls + 1
          /\ auth.inflight = 0
          /\ auth'.status = "unauthenticated"
          /\ (auth.calls > 0) =>
               /\ auth.lastResult \in {"failure", "rejection"}
               /\ auth.timer \in {"pending", "elapsed"}
               /\ auth'.timer = "elapsed"]_vars

\* C28 witness: two calls have failed, both retry delays have elapsed and
\* the third call is in flight
C28_Witness ==
  /\ auth.calls = MAX_RETRY_ATTEMPTS
  /\ auth.inflight = 1
  /\ auth.retryCount = MAX_RETRY_ATTEMPTS - 1
  /\ auth.timer = "elapsed"

\* every attempt has been made and the last one has failed
AllAttemptsFailed ==
  /\ auth.calls = MAX_RETRY_ATTEMPTS
  /\ auth.inflight = 0
  /\ auth.lastResult \in {"failure", "rejection"}

\* C29: when every attempt has failed, the component eventually shows the
\* 'Sealos Authentication Failed' screen (and no spinner any more).
C29_FailureScreenShown ==
  AllAttemptsFailed ~> (Screen(auth) = "failed")

====
